---------------------------- MODULE Spec2Model ----------------------------
(***************************************************************************)
(* Model of the Go resolver (crates/resolver/src/resolver/go.rs):          *)
(* go.mod / go.work parsing, the version chain (version.go, git tags,      *)
(* default), the version.go writer, resolve / resolve_all, bump,           *)
(* sort_packages and publish.                                              *)
(*                                                                         *)
(* Text is modelled as a sequence of tokens.  A token is one character     *)
(* ("1", ".", "/", "v", ...) or one word that the code never looks inside  *)
(* ("require", "module", "const", "svcA", ...); "sp" is one blank and      *)
(* "nl" one line break.                                                    *)
(***************************************************************************)
EXTENDS Integers, Sequences, FiniteSets, TLC

VARIABLES
    \* ---- parse_go_mod (one loop iteration per step) ----
    content,            \* the lines of the go.mod text being parsed
    line_no,            \* number of lines already consumed by the loop
    module,             \* local `module`
    go_version,         \* local `go_version`
    require,            \* local `require`
    in_require_block,   \* local `in_require_block`
    parse_result,       \* value returned by parse_go_mod, once it returned
    \* ---- version chain and writer ----
    version_go,         \* <package>/version.go: absent, or its text
    git_tags,           \* outcome of `git tag --list --sort=-v:refname`
    module_path,        \* module identity of the package
    written,            \* last version handed to update_version_go
    vop,                \* last version operation that ran
    vret,               \* what it returned
    \* ---- resolve_all ----
    go_work,            \* <root>/go.work: absent, or its lines
    dirs,               \* what each package directory holds
    rret,               \* what resolve_all returned
    attempted,          \* the paths resolve was called with, in call order
    \* ---- sort_packages ----
    packages,           \* the (name, PackageConfig) sequence, sorted in place
    manifests,          \* go.mod of each package name
    sort_input,         \* the sequence as passed in
    sret,               \* what sort_packages returned
    \* ---- bump / publish ----
    resolver_config,    \* prepublish and publish command lists
    pkg_version_go,     \* version.go of the package being bumped
    fs_before,          \* version.go as it was when the last call started
    pop,                \* the last call: bump or publish
    dry_run,            \* its dry-run flag
    executed,           \* commands handed to run_command by the last call, in order
    pret                \* what the last call returned

parseVars == <<content, line_no, module, go_version, require, in_require_block,
               parse_result>>
versionVars == <<version_go, git_tags, module_path, written, vop, vret>>
resolveVars == <<go_work, dirs, rret, attempted>>
sortVars == <<packages, manifests, sort_input, sret>>
publishVars == <<resolver_config, pkg_version_go, fs_before, pop, dry_run,
                 executed, pret>>
vars == <<parseVars, versionVars, resolveVars, sortVars, publishVars>>

(***************************************************************************)
(* Bounds of the model.                                                    *)
(***************************************************************************)
MaxLines == 3
MaxTags == 2
MaxMembers == 3
MaxPkgs == 3
MaxPre == 2
MaxPub == 2

(***************************************************************************)
(* Option and Result values.                                               *)
(***************************************************************************)
None == [some |-> FALSE, val |-> <<>>]
Some(x) == [some |-> TRUE, val |-> x]
Ok(x) == [ok |-> TRUE, val |-> x, err |-> "none"]
Err(e) == [ok |-> FALSE, val |-> <<>>, err |-> e]

(***************************************************************************)
(* Token-sequence primitives (str methods and regex character classes).    *)
(***************************************************************************)
IsSpace(c) == c \in {"sp", "nl"}
IsDigit(c) == c \in {"0", "1", "2", "3"}
IsAlpha(c) == c \in {"a", "b", "r", "c", "v", "V", "x"}
IsVerChar(c) == IsDigit(c) \/ IsAlpha(c) \/ c \in {".", "-"}

Drop(s, n) == SubSeq(s, n + 1, Len(s))
Take(s, n) == SubSeq(s, 1, n)

StartsWith(s, p) == Len(s) >= Len(p) /\ Take(s, Len(p)) = p

RECURSIVE TrimStart(_)
TrimStart(s) == IF s # <<>> /\ IsSpace(Head(s)) THEN TrimStart(Tail(s)) ELSE s

RECURSIVE TrimEnd(_)
TrimEnd(s) ==
    IF s # <<>> /\ IsSpace(s[Len(s)]) THEN TrimEnd(Take(s, Len(s) - 1)) ELSE s

Trim(s) == TrimEnd(TrimStart(s))

\* length of the longest prefix of s whose tokens all satisfy the class
RECURSIVE SpanSpace(_)
SpanSpace(s) == IF s # <<>> /\ IsSpace(Head(s)) THEN 1 + SpanSpace(Tail(s)) ELSE 0

RECURSIVE SpanNonSpace(_)
SpanNonSpace(s) ==
    IF s # <<>> /\ ~IsSpace(Head(s)) THEN 1 + SpanNonSpace(Tail(s)) ELSE 0

RECURSIVE SpanDigit(_)
SpanDigit(s) == IF s # <<>> /\ IsDigit(Head(s)) THEN 1 + SpanDigit(Tail(s)) ELSE 0

RECURSIVE SpanDigitDot(_)
SpanDigitDot(s) ==
    IF s # <<>> /\ (IsDigit(Head(s)) \/ Head(s) = ".")
    THEN 1 + SpanDigitDot(Tail(s)) ELSE 0

RECURSIVE SpanVerChar(_)
SpanVerChar(s) ==
    IF s # <<>> /\ IsVerChar(Head(s)) THEN 1 + SpanVerChar(Tail(s)) ELSE 0

\* the whitespace-separated words of s, in order
RECURSIVE Words(_)
Words(s) ==
    LET t == TrimStart(s)
        n == SpanNonSpace(t)
    IN  IF t = <<>> THEN <<>> ELSE <<Take(t, n)>> \o Words(Drop(t, n))


(***************************************************************************)
(* The four patterns of parse_go_mod, applied to a trimmed line.  Each     *)
(* returns the captures of the match, or None.                             *)
(***************************************************************************)
\* ^module\s+(.+)$
module_re(line) ==
    IF Len(line) >= 3 /\ line[1] = "module" /\ IsSpace(line[2])
    THEN Some(<<TrimStart(Drop(line, 1))>>)
    ELSE None

\* ^go\s+([\d.]+)
go_re(line) ==
    IF Len(line) >= 3 /\ line[1] = "go" /\ IsSpace(line[2])
       /\ SpanDigitDot(TrimStart(Drop(line, 1))) >= 1
    THEN LET rest == TrimStart(Drop(line, 1))
         IN  Some(<<Take(rest, SpanDigitDot(rest))>>)
    ELSE None

\* ^require\s+(\S+)\s+(\S+)
require_single_re(line) ==
    LET w == Words(line)
    IN  IF Len(w) >= 3 /\ w[1] = <<"require">>
        THEN Some(<<w[2], w[3]>>)
        ELSE None

\* ^\s*(\S+)\s+(\S+)
require_line_re(line) ==
    LET w == Words(line)
    IN  IF Len(w) >= 2 THEN Some(<<w[1], w[2]>>) ELSE None

RequireOpen == <<"require", "sp", "(">>
BlockClose == <<")">>
CommentMarker == <<"/", "/">>

GoRequire(p, v) == [path |-> p, version |-> v]

(***************************************************************************)
(* One iteration of the loop of parse_go_mod: the locals after `raw` has   *)
(* been handled.  st = [module, go_version, require, in_require_block].    *)
(***************************************************************************)
LineStepNoContinue(st, raw) ==
    LET line == Trim(raw)
        opened == IF line = RequireOpen
                  THEN [st EXCEPT !.in_require_block = TRUE] ELSE st
    IN  IF line = <<>> \/ StartsWith(line, CommentMarker) THEN st
        ELSE IF module_re(line).some
             THEN [st EXCEPT !.module = module_re(line).val[1]]
        ELSE IF go_re(line).some
             THEN [st EXCEPT !.go_version = Some(go_re(line).val[1])]
        ELSE IF line = BlockClose /\ opened.in_require_block
             THEN [opened EXCEPT !.in_require_block = FALSE]
        ELSE IF require_single_re(line).some
             THEN [opened EXCEPT !.require = Append(@,
                      GoRequire(require_single_re(line).val[1],
                                require_single_re(line).val[2]))]
        ELSE IF opened.in_require_block /\ require_line_re(line).some
                /\ ~StartsWith(require_line_re(line).val[1], CommentMarker)
             THEN [opened EXCEPT !.require = Append(@,
                      GoRequire(require_line_re(line).val[1],
                                require_line_re(line).val[2]))]
        ELSE opened

LineStep(st, raw) ==
    LET line == Trim(raw)
    IN  IF line = <<>> \/ StartsWith(line, CommentMarker) THEN st
        ELSE IF module_re(line).some
             THEN [st EXCEPT !.module = module_re(line).val[1]]
        ELSE IF go_re(line).some
             THEN [st EXCEPT !.go_version = Some(go_re(line).val[1])]
        ELSE IF line = RequireOpen
             THEN [st EXCEPT !.in_require_block = TRUE]
        ELSE IF line = BlockClose /\ st.in_require_block
             THEN [st EXCEPT !.in_require_block = FALSE]
        ELSE IF require_single_re(line).some
             THEN [st EXCEPT !.require = Append(@,
                      GoRequire(require_single_re(line).val[1],
                                require_single_re(line).val[2]))]
        ELSE IF st.in_require_block /\ require_line_re(line).some
                /\ ~StartsWith(require_line_re(line).val[1], CommentMarker)
             THEN [st EXCEPT !.require = Append(@,
                      GoRequire(require_line_re(line).val[1],
                                require_line_re(line).val[2]))]
        ELSE st

ParserStart ==
    [module |-> <<>>, go_version |-> None, require |-> <<>>,
     in_require_block |-> FALSE]

\* the check after the loop, and the value returned
ParserFinish(st) ==
    IF st.module = <<>>
    THEN Err("ParseError")
    ELSE Ok([module |-> st.module, go_version |-> st.go_version,
             require |-> st.require])

\* the loop: the locals after every line of `lines` has been handled in
\* order (the next locals are computed before the loop goes on)
RECURSIVE ParseLoop(_, _)
ParseLoop(st, lines) ==
    IF lines = <<>> THEN st
    ELSE CHOOSE r \in {ParseLoop(next, rest) :
                           next \in {LineStep(st, Head(lines))},
                           rest \in {Tail(lines)}} : TRUE

parse_go_mod(lines) == ParserFinish(ParseLoop(ParserStart, lines))

(***************************************************************************)
(* The semantic-version pattern shared by the version.go and the tag       *)
(* patterns:                                                               *)
(*   [\d]+\.[\d]+\.[\d]+(?:-[a-zA-Z0-9.-]+)?(?:\+[a-zA-Z0-9.-]+)?          *)
(* SemverLen(s) is the length of its match at the start of s, 0 when it    *)
(* does not match there.  Every repetition is followed by a token outside  *)
(* its class, so the greedy match is the only one.                         *)
(***************************************************************************)
CoreLen(s) ==
    LET a == SpanDigit(s)
        b == SpanDigit(Drop(s, a + 1))
        c == SpanDigit(Drop(s, a + 1 + b + 1))
    IN  IF a >= 1 /\ Len(s) > a /\ s[a + 1] = "."
           /\ b >= 1 /\ Len(s) > a + 1 + b /\ s[a + 1 + b + 1] = "."
           /\ c >= 1
        THEN a + 1 + b + 1 + c
        ELSE 0

\* (?:<sign>[a-zA-Z0-9.-]+)? at the start of s
OptPartLen(s, sign) ==
    IF Len(s) >= 2 /\ s[1] = sign /\ SpanVerChar(Tail(s)) >= 1
    THEN 1 + SpanVerChar(Tail(s))
    ELSE 0

SemverLen(s) ==
    LET core == CoreLen(s)
        pre == OptPartLen(Drop(s, core), "-")
        build == OptPartLen(Drop(s, core + pre), "+")
    IN  IF core = 0 THEN 0 ELSE core + pre + build

\* (?i): the pattern's literals match in either case
Lower(c) ==
    CASE c \in {"const", "CONST", "Const"} -> "const"
      [] c \in {"var", "VAR", "Var"} -> "var"
      [] c \in {"version", "VERSION", "Version"} -> "version"
      [] c = "V" -> "v"
      [] OTHER -> c

(***************************************************************************)
(* (?i)(?:const|var)\s+version\s*=\s*"v?(<semver>)" tried at position i of *)
(* text: [ok, open, from, to]: the opening quote is text[open], the        *)
(* capture is text[from..to], the closing quote text[to + 1].              *)
(***************************************************************************)
NoMatch == [ok |-> FALSE, open |-> 0, from |-> 0, to |-> 0]

VersionDeclAt(text, i) ==
    LET s1 == Drop(text, i)                   \* after const|var
        w1 == SpanSpace(s1)
        s2 == Drop(s1, w1)                    \* at `version`
        s3 == Drop(s2, 1)
        w2 == SpanSpace(s3)
        s4 == Drop(s3, w2)                    \* at `=`
        s5 == Drop(s4, 1)
        w3 == SpanSpace(s5)
        s6 == Drop(s5, w3)                    \* at the opening quote
        open == i + w1 + 1 + w2 + 1 + w3 + 1
        s7 == Drop(s6, 1)
        v == IF s7 # <<>> /\ Lower(s7[1]) = "v" /\ SemverLen(Tail(s7)) > 0
             THEN 1 ELSE 0
        n == SemverLen(Drop(s7, v))
    IN  IF /\ i <= Len(text)
           /\ Lower(text[i]) \in {"const", "var"}
           /\ w1 >= 1
           /\ s2 # <<>> /\ Lower(s2[1]) = "version"
           /\ s4 # <<>> /\ s4[1] = "="
           /\ s6 # <<>> /\ s6[1] = "\""
           /\ n >= 1
           /\ Len(text) > open + v + n
           /\ text[open + v + n + 1] = "\""
        THEN [ok |-> TRUE, open |-> open, from |-> open + v + 1,
              to |-> open + v + n]
        ELSE NoMatch

\* the leftmost match in text
RECURSIVE FirstVersionDecl(_, _)
FirstVersionDecl(text, i) ==
    IF i > Len(text) THEN NoMatch
    ELSE CHOOSE r \in {IF m.ok THEN m ELSE FirstVersionDecl(text, i + 1) :
                           m \in {VersionDeclAt(text, i)}} : TRUE

\* version_re.captures(&content) in extract_version_from_version_go
version_re_captures(text) == FirstVersionDecl(text, 1)

\* version_re.replace(&content, ..) in update_version_go: the first match
\* becomes caps[1] new_version caps[2], the text is unchanged without one
version_re_replace(text, new_version) ==
    CHOOSE r \in {IF m.ok
                  THEN Take(text, m.open) \o new_version \o Drop(text, m.to)
                  ELSE text :
                     m \in {FirstVersionDecl(text, 1)}} : TRUE

\* a file is None (absent) or Some(text)
extract_version_from_version_go(file) ==
    IF ~file.some THEN None
    ELSE CHOOSE r \in {IF m.ok THEN Some(SubSeq(file.val, m.from, m.to))
                       ELSE None :
                          m \in {version_re_captures(file.val)}} : TRUE

\* ^v?(<semver>)$ on a tag (case-sensitive)
tag_version_re(tag) ==
    LET v == IF tag # <<>> /\ tag[1] = "v" /\ SemverLen(Tail(tag)) > 0
             THEN 1 ELSE 0
        n == SemverLen(Drop(tag, v))
    IN  IF n >= 1 /\ v + n = Len(tag) THEN Some(Drop(tag, v)) ELSE None

\* tag.strip_prefix("<module_path>/")
strip_prefix(tag, prefix) ==
    IF StartsWith(tag, prefix) THEN Some(Drop(tag, Len(prefix))) ELSE None

\* the body of the loop over the tag lines: the version this tag yields
TagLookup(rawtag, modpath) ==
    LET tag == Trim(rawtag)
        stripped == strip_prefix(tag, modpath \o <<"/">>)
    IN  IF stripped.some /\ tag_version_re(stripped.val).some
        THEN tag_version_re(stripped.val)
        ELSE tag_version_re(tag)

RECURSIVE FirstTagVersion(_, _)
FirstTagVersion(tags, modpath) ==
    IF tags = <<>> THEN None
    ELSE CHOOSE r \in {IF found.some THEN found
                       ELSE FirstTagVersion(Tail(tags), modpath) :
                          found \in {TagLookup(Head(tags), modpath)}} : TRUE

\* git is Ok(tag lines) or Err: the command did not run or did not succeed
extract_version_from_git_tag(git, modpath) ==
    IF ~git.ok THEN None ELSE FirstTagVersion(git.val, modpath)

DefaultVersion == <<"0", ".", "0", ".", "0">>

get_version_tag_first(file, git, modpath) ==
    CHOOSE r \in {IF from_tag.some THEN from_tag.val
                  ELSE IF from_file.some THEN from_file.val
                  ELSE DefaultVersion :
                     from_file \in {extract_version_from_version_go(file)},
                     from_tag \in {extract_version_from_git_tag(git, modpath)}} :
        TRUE

\* version.go, then the git tag, then the default
get_version(file, git, modpath) ==
    CHOOSE r \in {IF from_file.some THEN from_file.val
                  ELSE IF from_tag.some THEN from_tag.val
                  ELSE DefaultVersion :
                     from_file \in {extract_version_from_version_go(file)},
                     from_tag \in {extract_version_from_git_tag(git, modpath)}} :
        TRUE

\* the text update_version_go creates when version.go is absent
Boilerplate(new_version) ==
    <<"package", "sp", "main", "nl", "nl",
      "/", "/", "sp", "Version", "sp", "is", "sp", "the", "sp", "current",
      "sp", "version", "sp", "of", "sp", "the", "sp", "module.", "nl",
      "const", "sp", "Version", "sp", "=", "sp", "\"">>
    \o new_version \o <<"\"", "nl">>

\* version.go after update_version_go(package_path, new_version)
update_version_go(file, new_version) ==
    IF ~file.some
    THEN Some(Boilerplate(new_version))
    ELSE Some(version_re_replace(file.val, new_version))

(***************************************************************************)
(* parse_go_work: the loop over the lines of go.work.                      *)
(* st = [go_version, use_dirs, in_use_block].                              *)
(***************************************************************************)
\* ^use\s+(\S+)
use_single_re(line) ==
    LET w == Words(line)
    IN  IF Len(w) >= 2 /\ w[1] = <<"use">> THEN Some(<<w[2]>>) ELSE None

\* ^\s*(\S+)
use_line_re(line) ==
    LET w == Words(line)
    IN  IF Len(w) >= 1 THEN Some(<<w[1]>>) ELSE None

UseOpen == <<"use", "sp", "(">>

WorkLineStep(st, raw) ==
    LET line == Trim(raw)
    IN  IF line = <<>> \/ StartsWith(line, CommentMarker) THEN st
        ELSE IF go_re(line).some
             THEN [st EXCEPT !.go_version = Some(go_re(line).val[1])]
        ELSE IF line = UseOpen
             THEN [st EXCEPT !.in_use_block = TRUE]
        ELSE IF line = BlockClose /\ st.in_use_block
             THEN [st EXCEPT !.in_use_block = FALSE]
        ELSE IF use_single_re(line).some
             THEN [st EXCEPT !.use_dirs = Append(@, use_single_re(line).val[1])]
        ELSE IF st.in_use_block /\ use_line_re(line).some
                /\ use_line_re(line).val[1] # BlockClose
                /\ ~StartsWith(use_line_re(line).val[1], CommentMarker)
             THEN [st EXCEPT !.use_dirs = Append(@, use_line_re(line).val[1])]
        ELSE st

RECURSIVE WorkLoop(_, _)
WorkLoop(st, lines) ==
    IF lines = <<>> THEN st
    ELSE CHOOSE r \in {WorkLoop(next, rest) :
                           next \in {WorkLineStep(st, Head(lines))},
                           rest \in {Tail(lines)}} : TRUE

parse_go_work(lines) ==
    LET st == WorkLoop([go_version |-> None, use_dirs |-> <<>>,
                        in_use_block |-> FALSE], lines)
    IN  Ok([go_version |-> st.go_version, use_dirs |-> st.use_dirs])

(***************************************************************************)
(* semver::Version::parse: MAJOR.MINOR.PATCH without leading zeros, then   *)
(* an optional -<pre-release> and an optional +<build>, each a list of     *)
(* non-empty identifiers separated by dots; a numeric pre-release          *)
(* identifier has no leading zero.                                         *)
(***************************************************************************)
\* the pieces of s between its dots
RECURSIVE SplitDot(_)
SplitDot(s) ==
    IF \A k \in 1..Len(s) : s[k] # "." THEN <<s>>
    ELSE CHOOSE r \in
             {<<Take(s, d - 1)>> \o SplitDot(Drop(s, d)) :
                 d \in {k \in 1..Len(s) :
                           s[k] = "." /\ \A j \in 1..(k - 1) : s[j] # "."}} : TRUE

IsNumeric(id) == id # <<>> /\ \A k \in 1..Len(id) : IsDigit(id[k])
HasLeadingZero(id) == Len(id) > 1 /\ id[1] = "0"

SemverValid(x) ==
    LET core == CoreLen(x)
        pre == OptPartLen(Drop(x, core), "-")
        nums == SplitDot(Take(x, core))
        pres == SplitDot(SubSeq(x, core + 2, core + pre))
        blds == SplitDot(Drop(x, core + pre + 1))
    IN  /\ core > 0
        /\ SemverLen(x) = Len(x)
        /\ \A k \in 1..3 : ~HasLeadingZero(nums[k])
        /\ (pre > 0 => \A k \in 1..Len(pres) :
                /\ pres[k] # <<>>
                /\ (IsNumeric(pres[k]) => ~HasLeadingZero(pres[k])))
        /\ (core + pre < Len(x) => \A k \in 1..Len(blds) : blds[k] # <<>>)

(***************************************************************************)
(* Paths and directories.                                                  *)
(***************************************************************************)
\* the pieces of a path between its slashes
RECURSIVE SplitSlash(_)
SplitSlash(s) ==
    IF \A k \in 1..Len(s) : s[k] # "/" THEN <<s>>
    ELSE CHOOSE r \in
             {<<Take(s, d - 1)>> \o SplitSlash(Drop(s, d)) :
                 d \in {k \in 1..Len(s) :
                           s[k] = "/" /\ \A j \in 1..(k - 1) : s[j] # "/"}} : TRUE

\* module_path.rsplit('/').next(): the piece after the last slash
module_name_from_path(modpath) ==
    SplitSlash(modpath)[Len(SplitSlash(modpath))]

\* the directory root.join(path) names: "." and empty pieces name nothing
RECURSIVE Components(_)
Components(pieces) ==
    IF pieces = <<>> THEN <<>>
    ELSE IF Head(pieces) \in {<<>>, <<".">>} THEN Components(Tail(pieces))
    ELSE <<Head(pieces)>> \o Components(Tail(pieces))

DirNames == {"root", "svcA", "svcB"}

DirOf(path) ==
    LET c == Components(SplitSlash(path))
    IN  IF c = <<>> THEN "root"
        ELSE IF Len(c) = 1 /\ Len(c[1]) = 1 /\ c[1][1] \in DirNames THEN c[1][1]
        ELSE "nowhere"

\* what a directory holds: the lines of go.mod and the text of version.go
NoDir == [go_mod |-> None, version_go |-> None]
DirAt(fs, path) == IF DirOf(path) \in DOMAIN fs THEN fs[DirOf(path)] ELSE NoDir

\* dir.trim_start_matches("./"): every leading repetition is removed
RECURSIVE trim_start_matches(_, _)
trim_start_matches(s, pat) ==
    IF StartsWith(s, pat) THEN trim_start_matches(Drop(s, Len(pat)), pat) ELSE s

strip_once(s, pat) == IF StartsWith(s, pat) THEN Drop(s, Len(pat)) ELSE s

DotSlash == <<".", "/">>

rel_path_strip_once(dir) ==
    IF dir = <<".">> THEN <<".">> ELSE strip_once(dir, DotSlash)

\* the member path resolve_all hands to resolve
rel_path(dir) ==
    IF dir = <<".">> THEN <<".">> ELSE trim_start_matches(dir, DotSlash)

(***************************************************************************)
(* resolve and resolve_all.                                                *)
(***************************************************************************)
ResolvedPackage(n, v, p) ==
    [name |-> n, version |-> v, path |-> p, private |-> FALSE]

\* the last step of resolve: the version string is parsed, the package built
resolve_package(go_mod, version_str, path) ==
    IF ~SemverValid(version_str) THEN Err("VersionFormatError")
    ELSE Ok(ResolvedPackage(module_name_from_path(go_mod.module),
                            version_str, path))

\* each `let` of the code is bound once, by CHOOSE over a one-element image
resolve(fs, git, path) ==
    LET d == DirAt(fs, path) IN
    IF ~d.go_mod.some THEN Err("FileOrDirNotFound")
    ELSE CHOOSE out \in
             {IF ~go_mod.ok THEN Err(go_mod.err)
              ELSE CHOOSE pkg \in
                       {resolve_package(go_mod.val, version_str, path) :
                           version_str \in {get_version(d.version_go, git,
                                                       go_mod.val.module)}} : TRUE :
                 go_mod \in {parse_go_mod(d.go_mod.val)}} : TRUE

\* .map(|dir| resolve(..)).collect::<Result<Vec<_>, _>>(): members are
\* resolved in order until one fails.  [ret, attempted]
RECURSIVE CollectAll(_, _, _, _, _)
CollectAll(fs, git, members, acc, att) ==
    IF members = <<>> THEN [ret |-> Ok(acc), attempted |-> att]
    ELSE LET p == rel_path(Head(members))
             r == resolve(fs, git, p)
             rest == CollectAll(fs, git, Tail(members), acc, Append(att, p))
         IN  IF r.ok
             THEN CollectAll(fs, git, Tail(members), Append(acc, r.val),
                             Append(att, p))
             ELSE [ret |-> r, attempted |-> rest.attempted]

RECURSIVE Collect(_, _, _, _, _)
Collect(fs, git, members, acc, att) ==
    IF members = <<>> THEN [ret |-> Ok(acc), attempted |-> att]
    ELSE CHOOSE out \in
             {CHOOSE o \in
                  {IF r.ok
                   THEN Collect(fs, git, Tail(members), Append(acc, r.val),
                                Append(att, p))
                   ELSE [ret |-> r, attempted |-> Append(att, p)] :
                      r \in {resolve(fs, git, p)}} : TRUE :
                 p \in {rel_path(Head(members))}} : TRUE

resolve_all(work, fs, git) ==
    IF work.some
    THEN CHOOSE out \in
             {Collect(fs, git, go_work_file.val.use_dirs, <<>>, <<>>) :
                 go_work_file \in {parse_go_work(work.val)}} : TRUE
    ELSE IF ~DirAt(fs, <<>>).go_mod.some
    THEN [ret |-> Ok(<<>>), attempted |-> <<>>]
    ELSE CHOOSE out \in
             {[ret |-> IF r.ok THEN Ok(<<r.val>>) ELSE r,
               attempted |-> <<<<".">>>>] :
                 r \in {resolve(fs, git, <<".">>)}} : TRUE

(***************************************************************************)
(* sort_packages.  A package is [name, path, resolver]; fs maps a package  *)
(* name to the go.mod of its directory (None: no such file).               *)
(***************************************************************************)
\* the try_fold over the Go packages: name -> GoMod, or the first error
RECURSIVE CachePackages(_, _, _)
CachePackages(pkgs, fs, acc) ==
    IF pkgs = <<>> THEN Ok(acc)
    ELSE LET p == Head(pkgs) IN
         IF p.resolver # "Go" THEN CachePackages(Tail(pkgs), fs, acc)
         ELSE IF ~fs[p.name].some THEN Err("Io")
         ELSE LET go_mod == parse_go_mod(fs[p.name].val) IN
              IF ~go_mod.ok THEN Err(go_mod.err)
              ELSE CachePackages(Tail(pkgs), fs,
                       [n \in DOMAIN acc \cup {p.name} |->
                           IF n = p.name THEN go_mod.val ELSE acc[n]])

EmptyMap == [n \in {} |-> n]

\* the maps module identity -> package name that collecting the pairs of
\* cached_packages can give: one name per module identity, any of those
\* declaring it (a HashMap keeps the pair inserted last, in its own order)
ModuleToNameChoices(cached) ==
    LET mods == {cached[n].module : n \in DOMAIN cached}
    IN  {f \in [mods -> DOMAIN cached] : \A m \in mods : cached[f[m]].module = m}

\* a_mod.require.iter().any(|req| module_to_name.get(&req.path) == Some(b))
DependsOn(cached, m2n, a, b) ==
    \E k \in 1..Len(cached[a].require) :
        /\ cached[a].require[k].path \in DOMAIN m2n
        /\ m2n[cached[a].require[k].path] = b

\* a comparator that also orders the kinds: entries of other kinds first
compare_kinds_ordered(cached, m2n, a, b) ==
    IF a.resolver = "Go" /\ b.resolver = "Go"
    THEN IF DependsOn(cached, m2n, a.name, b.name) THEN "Greater"
         ELSE IF DependsOn(cached, m2n, b.name, a.name) THEN "Less"
         ELSE "Equal"
    ELSE IF a.resolver # "Go" /\ b.resolver = "Go" THEN "Less"
    ELSE IF a.resolver = "Go" /\ b.resolver # "Go" THEN "Greater"
    ELSE "Equal"

\* the closure handed to sort_by
compare(cached, m2n, a, b) ==
    IF a.resolver = "Go" /\ b.resolver = "Go"
    THEN IF DependsOn(cached, m2n, a.name, b.name) THEN "Greater"
         ELSE IF DependsOn(cached, m2n, b.name, a.name) THEN "Less"
         ELSE "Equal"
    ELSE "Equal"

is_less(cached, m2n, a, b) == compare(cached, m2n, a, b) = "Less"

(***************************************************************************)
(* slice::sort_by on a short slice is an insertion sort.  The comparator   *)
(* above is no total order, so the result is whatever the insertion sort   *)
(* of the toolchain leaves: current toolchains insert each element into    *)
(* the sorted prefix (insertion_sort_shift_left), older ones insert each   *)
(* element into the sorted suffix (insert_head).                           *)
(***************************************************************************)
\* insert x after the sorted slice v: x moves left past v[j] while x < v[j]
RECURSIVE insert_tail(_, _, _, _)
insert_tail(cached, m2n, v, x) ==
    IF v = <<>> \/ ~is_less(cached, m2n, x, v[Len(v)])
    THEN Append(v, x)
    ELSE Append(insert_tail(cached, m2n, Take(v, Len(v) - 1), x), v[Len(v)])

RECURSIVE insertion_sort_shift_left(_, _, _, _)
insertion_sort_shift_left(cached, m2n, done, rest) ==
    IF rest = <<>> THEN done
    ELSE insertion_sort_shift_left(cached, m2n,
             insert_tail(cached, m2n, done, Head(rest)), Tail(rest))

\* insert x before the sorted slice v: x moves right past v[j] while v[j] < x
RECURSIVE insert_head(_, _, _, _)
insert_head(cached, m2n, x, v) ==
    IF v = <<>> \/ ~is_less(cached, m2n, Head(v), x)
    THEN <<x>> \o v
    ELSE <<Head(v)>> \o insert_head(cached, m2n, x, Tail(v))

RECURSIVE insertion_sort_from_right(_, _, _)
insertion_sort_from_right(cached, m2n, v) ==
    IF v = <<>> THEN <<>>
    ELSE insert_head(cached, m2n, Head(v),
             insertion_sort_from_right(cached, m2n, Tail(v)))

SortAlgorithms == {"insertion_sort_shift_left", "insert_head"}

sort_by(cached, m2n, v, alg) ==
    IF alg = "insertion_sort_shift_left"
    THEN insertion_sort_shift_left(cached, m2n, <<>>, v)
    ELSE insertion_sort_from_right(cached, m2n, v)

(***************************************************************************)
(* bump and publish.  A command is [command, dry_run]: dry_run is the      *)
(* command's own Option<bool>, and the program it names exits with         *)
(* success ("true") or with failure ("false") when run_command runs it.    *)
(***************************************************************************)
unwrap_or(opt, default) == IF opt.some THEN opt.val ELSE default

skip_command_default_true(dry, cmd) == dry /\ ~unwrap_or(cmd.dry_run, TRUE)

\* if dry_run && !cmd.dry_run.unwrap_or(false) { ...; continue; }
skip_command(dry, cmd) == dry /\ ~unwrap_or(cmd.dry_run, FALSE)

\* utils::run_command(cmd, &package.path)
run_command(cmd) == IF cmd.command = "true" THEN Ok(<<>>) ELSE Err("Command")

\* a `for` loop over one command list that goes on after a failed command
RECURSIVE run_list_no_abort(_, _, _, _, _)
run_list_no_abort(list, which, dry, k, ran) ==
    IF k > Len(list) THEN [ret |-> Ok(<<>>), executed |-> ran]
    ELSE IF skip_command(dry, list[k])
         THEN run_list_no_abort(list, which, dry, k + 1, ran)
    ELSE LET rest == run_list_no_abort(list, which, dry, k + 1,
                         Append(ran, [list |-> which, index |-> k]))
         IN  IF run_command(list[k]).ok THEN rest
             ELSE [ret |-> run_command(list[k]), executed |-> rest.executed]

\* one `for` loop of publish from its k-th command on: [ret, executed]
RECURSIVE run_list(_, _, _, _, _)
run_list(list, which, dry, k, ran) ==
    IF k > Len(list) THEN [ret |-> Ok(<<>>), executed |-> ran]
    ELSE IF skip_command(dry, list[k])
         THEN run_list(list, which, dry, k + 1, ran)
    ELSE IF run_command(list[k]).ok
         THEN run_list(list, which, dry, k + 1,
                       Append(ran, [list |-> which, index |-> k]))
    ELSE [ret |-> run_command(list[k]),
          executed |-> Append(ran, [list |-> which, index |-> k])]

publish(config, dry) ==
    LET pre == run_list(config.prepublish, "prepublish", dry, 1, <<>>)
    IN  IF ~pre.ret.ok THEN pre
        ELSE run_list(config.publish, "publish", dry, 1, pre.executed)

\* version.go after bump(ctx, root, package, version)
bump(file, dry, bumped_version) ==
    IF dry THEN file ELSE update_version_go(file, bumped_version)

(***************************************************************************)
(* Idle values: a specification that exercises one part of the resolver    *)
(* leaves the variables of the other parts at these values.                *)
(***************************************************************************)
SeqsUpTo(S, n) == UNION {[1..k -> S] : k \in 0..n}

ParseIdle ==
    /\ content = <<>>
    /\ line_no = 0
    /\ module = <<>>
    /\ go_version = None
    /\ require = <<>>
    /\ in_require_block = FALSE
    /\ parse_result = None

VersionIdle ==
    /\ version_go = None
    /\ git_tags = Err("idle")
    /\ module_path = <<>>
    /\ written = None
    /\ vop = "none"
    /\ vret = None

ResolveIdle ==
    /\ go_work = None
    /\ dirs = <<>>
    /\ rret = None
    /\ attempted = <<>>

SortIdle ==
    /\ packages = <<>>
    /\ manifests = <<>>
    /\ sort_input = <<>>
    /\ sret = None

PublishIdle ==
    /\ resolver_config = [prepublish |-> <<>>, publish |-> <<>>]
    /\ pkg_version_go = None
    /\ fs_before = None
    /\ pop = "none"
    /\ dry_run = FALSE
    /\ executed = <<>>
    /\ pret = None

(***************************************************************************)
(* parse_go_mod as a state machine: one step per line of the text, then    *)
(* the return.                                                             *)
(***************************************************************************)
\* go.mod lines the parser is run on
GoModLines ==
    { <<>>,
      <<"sp">>,
      <<"/", "/", "sp", "x", "sp", "v1">>,
      <<"sp", "/", "/", "sp", "indirect">>,
      <<"module", "sp", "m1">>,
      <<"go", "sp", "1", ".", "2">>,
      <<"require", "sp", "(">>,
      <<"sp", "require", "sp", "(", "sp">>,
      <<"require", "sp", "sp", "(">>,
      <<")">>,
      <<")", "sp", "/", "/", "sp", "end">>,
      <<"require", "sp", "m2", "sp", "v1">>,
      <<"sp", "m2", "sp", "v1">>,
      <<"sp", "m3", "sp", "v1", "sp", "/", "/", "sp", "indirect">>,
      <<"m2">> }

ParserLocals ==
    [module |-> module, go_version |-> go_version, require |-> require,
     in_require_block |-> in_require_block]

ParseInit ==
    /\ content \in SeqsUpTo(GoModLines, MaxLines)
    /\ line_no = 0
    /\ module = ParserStart.module
    /\ go_version = ParserStart.go_version
    /\ require = ParserStart.require
    /\ in_require_block = ParserStart.in_require_block
    /\ parse_result = None

ParseLine ==
    /\ parse_result = None
    /\ line_no < Len(content)
    /\ LET st == LineStep(ParserLocals, content[line_no + 1])
       IN  /\ module' = st.module
           /\ go_version' = st.go_version
           /\ require' = st.require
           /\ in_require_block' = st.in_require_block
    /\ line_no' = line_no + 1
    /\ UNCHANGED <<content, parse_result>>
    /\ UNCHANGED <<versionVars, resolveVars, sortVars, publishVars>>

ParseReturn ==
    /\ parse_result = None
    /\ line_no = Len(content)
    /\ parse_result' = Some(ParserFinish(ParserLocals))
    /\ UNCHANGED <<content, line_no, module, go_version, require, in_require_block>>
    /\ UNCHANGED <<versionVars, resolveVars, sortVars, publishVars>>

InitParse == ParseInit /\ VersionIdle /\ ResolveIdle /\ SortIdle /\ PublishIdle
NextParse == ParseLine \/ ParseReturn
SpecParse == InitParse /\ [][NextParse]_vars

(***************************************************************************)
(* C9.  Shapes of a trimmed line, as the claim names them.                 *)
(***************************************************************************)
IsCommentLine(line) == Len(line) >= 2 /\ line[1] = "/" /\ line[2] = "/"
IsModuleLine(line) == Len(Words(line)) >= 2 /\ Words(line)[1] = <<"module">>
IsGoLine(line) ==
    /\ Len(Words(line)) >= 2
    /\ Words(line)[1] = <<"go">>
    /\ (IsDigit(Words(line)[2][1]) \/ Words(line)[2][1] = ".")
IsSingleRequireLine(line) ==
    Len(Words(line)) >= 3 /\ Words(line)[1] = <<"require">>
IsBlockEntryLine(line) ==
    Len(Words(line)) >= 2 /\ ~IsCommentLine(Words(line)[1])
IsInertLine(line, inBlock) ==
    \/ line = <<>>
    \/ IsCommentLine(line)
    \/ (line = <<")">> /\ ~inBlock)
    \/ /\ ~inBlock
       /\ ~IsModuleLine(line)
       /\ ~IsGoLine(line)
       /\ line # <<"require", "sp", "(">>
       /\ ~IsSingleRequireLine(line)

C9_LineEffect ==
    line_no' = line_no + 1 =>
        LET line == Trim(content[line_no']) IN
        \* no line makes the parser return
        /\ parse_result' = parse_result
        \* block mode is entered only by `require (`, left only by a bare `)`
        /\ (in_require_block' /\ ~in_require_block
                => line = <<"require", "sp", "(">>)
        /\ (~in_require_block' /\ in_require_block => line = <<")">>)
        \* a requirement is appended only by the two requirement rules
        /\ (require' # require =>
               /\ Len(require') = Len(require) + 1
               /\ SubSeq(require', 1, Len(require)) = require
               /\ \/ /\ IsSingleRequireLine(line)
                     /\ require'[Len(require')] =
                            GoRequire(Words(line)[2], Words(line)[3])
                  \/ /\ in_require_block
                     /\ IsBlockEntryLine(line)
                     /\ require'[Len(require')] =
                            GoRequire(Words(line)[1], Words(line)[2]))
        \* exactly one rule handles the line: at most one local changes
        /\ Cardinality({i \in 1..4 :
               <<module', go_version', require', in_require_block'>>[i]
                   # <<module, go_version, require, in_require_block>>[i]}) <= 1
        \* the inert lines change nothing
        /\ (IsInertLine(line, in_require_block) =>
               UNCHANGED <<module, go_version, require, in_require_block>>)

\* C9: every line of a manifest is handled by exactly one rule: block mode
\* is entered only by `require (` and left only by a bare `)`, a requirement
\* is appended only by a single-line require or by a block entry whose path
\* is not a comment marker, and blank lines, comment lines, a bare `)`
\* outside a block and unmatched lines outside a block change nothing and
\* never end the parse with an error.
C9_BlockModeStateMachine == [][C9_LineEffect]_vars

\* a comment-marked line inside a require block was consumed, the block is
\* still open and only the real entry after it became a requirement
C9_Witness ==
    /\ Len(content) = 3
    /\ line_no = 3
    /\ Trim(content[1]) = <<"require", "sp", "(">>
    /\ IsCommentLine(Trim(content[2]))
    /\ Len(Words(content[2])) >= 2
    /\ in_require_block
    /\ Len(require) = 1

(***************************************************************************)
(* The version chain and the writer on one package directory.              *)
(***************************************************************************)
V100 == <<"1", ".", "0", ".", "0">>
V110 == <<"1", ".", "1", ".", "0">>
V123 == <<"1", ".", "2", ".", "3">>
V130 == <<"1", ".", "3", ".", "0">>
V200 == <<"2", ".", "0", ".", "0">>
V300 == <<"3", ".", "0", ".", "0">>
V310 == <<"3", ".", "1", ".", "0">>
V200rc1 == <<"2", ".", "0", ".", "0", "-", "r", "c", ".", "1">>
V100b == <<"1", ".", "0", ".", "0", "+", "b">>
V010ab == <<"0", ".", "1", ".", "0", "-", "a", "+", "b">>
V0123 == <<"0", "1", ".", "2", ".", "3">>

Decl(kw, ident, ver) ==
    <<kw, "sp", ident, "sp", "=", "sp", "\"">> \o ver \o <<"\"", "nl">>

\* states of <package>/version.go before any call
VersionFiles ==
    { None,
      Some(<<>>),
      Some(<<"package", "sp", "main", "nl">>),
      Some(Boilerplate(V100)),
      Some(<<"var", "sp", "VERSION", "=", "\"", "V">> \o V300 \o <<"\"">>),
      Some(Decl("const", "Version", V200) \o Decl("var", "version", V300)),
      Some(<<"const", "sp", "Version", "sp", "=", "sp", "\"", "1", ".", "2",
             "\"", "nl">> \o Decl("var", "Version", <<"v">> \o V310)),
      Some(Decl("const", "Version", V0123)) }

\* versions handed to the writer: what semver::Version::to_string yields
BumpVersions == {V123, V200rc1, V100b, V010ab}

ModulePaths == {<<"example.com", "/", "auth">>}

\* lines `git tag --list` may print for a package with module identity m
TagLines(m) ==
    { <<"v">> \o V200,
      V130,
      m \o <<"/", "v">> \o V110,
      <<"other", "/", "v">> \o V300,
      <<"release">> }

VersionInit ==
    /\ version_go \in VersionFiles
    /\ module_path \in ModulePaths
    /\ git_tags \in {Err("git")} \cup {Ok(t) : t \in SeqsUpTo(TagLines(module_path), MaxTags)}
    /\ written = None
    /\ vop = "none"
    /\ vret = None

UpdateVersionGo ==
    /\ \E new_version \in BumpVersions :
          /\ version_go' = update_version_go(version_go, new_version)
          /\ written' = Some(new_version)
    /\ vop' = "update_version_go"
    /\ vret' = None
    /\ UNCHANGED <<git_tags, module_path>>
    /\ UNCHANGED <<parseVars, resolveVars, sortVars, publishVars>>

ExtractVersionFromVersionGo ==
    /\ vret' = extract_version_from_version_go(version_go)
    /\ vop' = "extract_version_from_version_go"
    /\ UNCHANGED <<version_go, git_tags, module_path, written>>
    /\ UNCHANGED <<parseVars, resolveVars, sortVars, publishVars>>

ExtractVersionFromGitTag ==
    /\ vret' = extract_version_from_git_tag(git_tags, module_path)
    /\ vop' = "extract_version_from_git_tag"
    /\ UNCHANGED <<version_go, git_tags, module_path, written>>
    /\ UNCHANGED <<parseVars, resolveVars, sortVars, publishVars>>

GetVersion ==
    /\ vret' = Some(get_version(version_go, git_tags, module_path))
    /\ vop' = "get_version"
    /\ UNCHANGED <<version_go, git_tags, module_path, written>>
    /\ UNCHANGED <<parseVars, resolveVars, sortVars, publishVars>>

InitVersion == VersionInit /\ ParseIdle /\ ResolveIdle /\ SortIdle /\ PublishIdle
NextVersion ==
    \/ UpdateVersionGo
    \/ ExtractVersionFromVersionGo
    \/ ExtractVersionFromGitTag
    \/ GetVersion
SpecVersion == InitVersion /\ [][NextVersion]_vars

(***************************************************************************)
(* What the claims call a semantic version, a matching assignment and a    *)
(* matching tag, stated over positions instead of scanned.                 *)
(***************************************************************************)
IsCoreShape(x) ==
    \E p1 \in 2..Len(x) : \E p2 \in (p1 + 2)..(Len(x) - 1) :
        /\ x[p1] = "." /\ x[p2] = "."
        /\ \A k \in (1..Len(x)) \ {p1, p2} : IsDigit(x[k])

IsPartShape(x, sign) ==
    /\ Len(x) >= 2
    /\ x[1] = sign
    /\ \A k \in 2..Len(x) : IsVerChar(x[k])

SemverShaped(x) ==
    \E a \in 1..Len(x) : \E b \in a..Len(x) :
        /\ IsCoreShape(Take(x, a))
        /\ (a = b \/ IsPartShape(SubSeq(x, a + 1, b), "-"))
        /\ (b = Len(x) \/ IsPartShape(Drop(x, b), "+"))

AllSpace(text, from, to) == \A k \in from..to : IsSpace(text[k])

\* the spans <<from, to>> of text that are the version of an assignment
\*   (const|var) <blanks> version <blanks>? = <blanks>? " v? <semver> "
\* starting at position i, letters of the keywords in either case
DeclSpansAt(text, i) ==
    IF Lower(text[i]) \notin {"const", "var"} THEN {}
    ELSE UNION { UNION { UNION { UNION {
             { <<f, d - 1>> : f \in {g \in {c + 1, c + 2} :
                   /\ g < d
                   /\ (g = c + 2 => Lower(text[c + 1]) = "v")
                   /\ SemverShaped(SubSeq(text, g, d - 1))} }
             : d \in {d \in (c + 1)..Len(text) : text[d] = "\""} }
             : c \in {c \in (b + 1)..Len(text) :
                         AllSpace(text, b + 1, c - 1) /\ text[c] = "\""} }
             : b \in {b \in (a + 1)..Len(text) :
                         AllSpace(text, a + 1, b - 1) /\ text[b] = "="} }
             : a \in {a \in (i + 2)..Len(text) :
                         AllSpace(text, i + 1, a - 1)
                         /\ Lower(text[a]) = "version"} }

DeclPositions(text) == {i \in 1..Len(text) : DeclSpansAt(text, i) # {}}

\* the version of the first matching assignment of a version.go, if any
DeclaredVersion(file) ==
    IF ~file.some \/ DeclPositions(file.val) = {} THEN None
    ELSE LET i == CHOOSE k \in DeclPositions(file.val) :
                      \A j \in DeclPositions(file.val) : k <= j
             sp == CHOOSE fd \in DeclSpansAt(file.val, i) : TRUE
         IN  Some(SubSeq(file.val, sp[1], sp[2]))

\* the version a bare tag <semver> or v<semver> names
BareTagVersions(tag) ==
    {x \in {tag, Tail(tag)} : SemverShaped(x) /\ (x = tag \/ Head(tag) = "v")}

\* the version a tag <m>/<semver> or <m>/v<semver> names
PrefixedTagVersions(tag, m) ==
    IF StartsWith(tag, m \o <<"/">>) /\ Len(tag) > Len(m) + 1
    THEN BareTagVersions(Drop(tag, Len(m) + 1))
    ELSE {}

TagVersions(tag, m) ==
    IF tag = <<>> THEN {} ELSE BareTagVersions(tag) \cup PrefixedTagVersions(tag, m)

MatchingTags(git, m) ==
    IF ~git.ok THEN {} ELSE {i \in 1..Len(git.val) : TagVersions(git.val[i], m) # {}}

PrefixedTags(git, m) ==
    IF ~git.ok THEN {}
    ELSE {i \in 1..Len(git.val) : PrefixedTagVersions(git.val[i], m) # {}}

Least(S) == CHOOSE k \in S : \A j \in S : k <= j

C2_RoundTrip ==
    (vop = "extract_version_from_version_go" /\ written.some)
        => vret = Some(written.val)

\* C8: whenever the tag list holds a tag <module>/<semver>, the tag lookup
\* returns the version of the first such tag, also when bare tags come
\* earlier in the list.
C8_PrefixedTagPreferred ==
    (vop = "extract_version_from_git_tag"
        /\ PrefixedTags(git_tags, module_path) # {})
        => /\ vret.some
           /\ vret.val \in PrefixedTagVersions(
                  git_tags.val[Least(PrefixedTags(git_tags, module_path))],
                  module_path)

(***************************************************************************)
(* resolve_all on a repository root.                                       *)
(***************************************************************************)
ModuleOf(d) == <<"example.com", "/", d>>

GoModOf(d) == <<<<"module", "sp">> \o ModuleOf(d), <<"go", "sp", "1", ".", "2">>>>

\* what a package directory d may hold
DirStates(d) ==
    { NoDir,
      [go_mod |-> Some(GoModOf(d)),
       version_go |-> Some(Decl("const", "Version", V0123))],
      [go_mod |-> Some(GoModOf(d)), version_go |-> None] }
    \cup IF d = "svcB" THEN {}
         ELSE { [go_mod |-> Some(<<<<"go", "sp", "1", ".", "2">>>>),
                 version_go |-> None],
                [go_mod |-> Some(GoModOf(d)),
                 version_go |-> Some(Decl("var", "Version", <<"v">> \o V100))] }

\* member paths a go.work may list
Members ==
    { <<".">>, <<".", "/", "svcA">>, <<"svcB">>, <<".", "/", ".", "/", "svcA">> }

\* go.work with the members in a use block, or one use line per member
WorkBlock(ms) ==
    <<<<"go", "sp", "1", ".", "2">>, <<>>, <<"use", "sp", "(">>>>
    \o [k \in 1..Len(ms) |-> <<"sp", "sp">> \o ms[k]]
    \o <<<<"sp", "/", "/", "sp", "members">>, <<")">>>>

WorkLines(ms) == [k \in 1..Len(ms) |-> <<"use", "sp">> \o ms[k]]

WorkFiles ==
    {None}
    \cup {Some(WorkBlock(ms)) : ms \in SeqsUpTo(Members, MaxMembers)}
    \cup {Some(WorkLines(ms)) : ms \in SeqsUpTo(Members, 1)}

ResolveInit ==
    /\ go_work \in WorkFiles
    /\ dirs \in {f \in [DirNames -> UNION {DirStates(d) : d \in DirNames}] :
                    \A d \in DirNames : f[d] \in DirStates(d)}
    /\ rret = None
    /\ attempted = <<>>

ResolveAll ==
    /\ rret = None
    /\ LET r == resolve_all(go_work, dirs, git_tags)
       IN  /\ rret' = Some(r.ret)
           /\ attempted' = r.attempted
    /\ UNCHANGED <<go_work, dirs>>
    /\ UNCHANGED <<parseVars, versionVars, sortVars, publishVars>>

InitResolve ==
    /\ ResolveInit
    /\ ParseIdle /\ SortIdle /\ PublishIdle
    /\ version_go = None
    /\ git_tags = Ok(<<<<"v">> \o V200>>)
    /\ module_path = <<>>
    /\ written = None
    /\ vop = "none"
    /\ vret = None
NextResolve == ResolveAll
SpecResolve == InitResolve /\ [][NextResolve]_vars

\* the member paths go.work lists: the first word of each line between
\* `use (` and `)` that is not a comment, or the word after `use`
ListedMembers(work) ==
    LET lines == work.val
        IsMember(k) ==
            /\ Words(lines[k]) # <<>>
            /\ Words(lines[k])[1] \notin {<<"go">>, <<")">>}
            /\ ~IsCommentLine(Trim(lines[k]))
            /\ Trim(lines[k]) # <<"use", "sp", "(">>
        MemberAt(k) ==
            IF Words(lines[k])[1] = <<"use">>
            THEN Words(lines[k])[2] ELSE Words(lines[k])[1]
        F[k \in 0..Len(lines)] ==
            IF k = 0 THEN <<>>
            ELSE IF IsMember(k) THEN Append(F[k - 1], MemberAt(k)) ELSE F[k - 1]
    IN  F[Len(lines)]

PathsOf(pkgs) == [k \in 1..Len(pkgs) |-> pkgs[k].path]

NoLeadingDotSlash(p) == ~StartsWith(p, <<".", "/">>)
IsStripped(member, p) ==
    /\ NoLeadingDotSlash(p)
    /\ \E n \in 0..Len(member) :
          /\ Len(member) = 2 * n + Len(p)
          /\ \A k \in 1..n : member[2 * k - 1] = "." /\ member[2 * k] = "/"
          /\ Drop(member, 2 * n) = p

FailureOf(d) ==
    IF ~d.go_mod.some THEN "FileOrDirNotFound"
    ELSE IF \A k \in 1..Len(d.go_mod.val) : ~IsModuleLine(Trim(d.go_mod.val[k]))
    THEN "ParseError"
    ELSE IF DeclaredVersion(d.version_go).some
            /\ HasLeadingZero(SplitDot(DeclaredVersion(d.version_go).val)[1])
    THEN "VersionFormatError"
    ELSE "none"

MemberDir(member) ==
    IF member = <<".">> THEN "root" ELSE member[Len(member)]

FailingMembers(work, fs) ==
    {k \in 1..Len(ListedMembers(work)) :
        FailureOf(fs[MemberDir(ListedMembers(work)[k])]) # "none"}

\* C6: when a workspace member fails to resolve, resolve_all returns the
\* error of the first failing member (FileOrDirNotFound, ParseError or a
\* version-format error), no list, and resolve is called for no member
\* after it.
C6_FailFast ==
    (rret.some /\ go_work.some /\ FailingMembers(go_work, dirs) # {}) =>
        LET i == Least(FailingMembers(go_work, dirs)) IN
        /\ ~rret.val.ok
        /\ rret.val.val = <<>>
        /\ rret.val.err = FailureOf(dirs[MemberDir(ListedMembers(go_work)[i])])
        /\ Len(attempted) = i
        /\ \A k \in 1..i : DirOf(attempted[k]) = MemberDir(ListedMembers(go_work)[k])

\* the second of three members failed with a version-format error: the
\* first was resolved, the third never tried
C6_Witness ==
    /\ rret.some /\ go_work.some
    /\ Len(ListedMembers(go_work)) = 3
    /\ FailingMembers(go_work, dirs) = {2, 3}
    /\ rret.val.err = "VersionFormatError"
    /\ Len(attempted) = 2

(***************************************************************************)
(* sort_packages on a package list.                                        *)
(***************************************************************************)
PkgNames == <<"p1", "p2", "p3", "p4", "p5">>
PkgName(k) == PkgNames[k]

\* go.mod of module identity example.com/<name> requiring the modules of
\* the packages in reqs: one require line, or a require block
RequireLinesOf(reqs) ==
    LET all == [k \in 1..MaxPkgs |-> PkgName(k)]
        sel == SelectSeq(all, LAMBDA n : n \in reqs)
    IN  IF Len(sel) = 1
        THEN <<<<"require", "sp">> \o ModuleOf(sel[1]) \o <<"sp", "v1">>>>
        ELSE IF Len(sel) = 0 THEN <<>>
        ELSE <<<<"require", "sp", "(">>>>
             \o [k \in 1..Len(sel) |-> <<"sp">> \o ModuleOf(sel[k]) \o <<"sp", "v1">>]
             \o <<<<")">>>>

ManifestOf(name, reqs) ==
    Some(<<<<"module", "sp">> \o ModuleOf(name)>> \o RequireLinesOf(reqs))

\* an entry of the list before its place is known: its kind and, for a Go
\* entry, its go.mod; reqs holds the distances, in PkgNames taken as a
\* ring of MaxPkgs names, to the packages whose modules it requires (a
\* module never requires itself)
EntryShapes ==
    {[resolver |-> "Other", missing |-> TRUE, nomodule |-> FALSE, reqs |-> {}]}
    \cup {[resolver |-> "Go", missing |-> TRUE, nomodule |-> FALSE, reqs |-> {}],
          [resolver |-> "Go", missing |-> FALSE, nomodule |-> TRUE, reqs |-> {}]}
    \cup {[resolver |-> "Go", missing |-> FALSE, nomodule |-> FALSE, reqs |-> r] :
              r \in SUBSET (1..(MaxPkgs - 1))}

ManifestFor(k, shape) ==
    IF shape.missing THEN None
    ELSE IF shape.nomodule THEN Some(<<<<"go", "sp", "1", ".", "2">>>>)
    ELSE ManifestOf(PkgName(k),
             {PkgName(((k - 1 + d) % MaxPkgs) + 1) : d \in shape.reqs})

SortInit ==
    \E n \in 1..MaxPkgs : \E shapes \in [1..n -> EntryShapes] :
        /\ packages = [k \in 1..n |->
                          [name |-> PkgName(k), path |-> <<PkgName(k)>>,
                           resolver |-> shapes[k].resolver]]
        /\ manifests = [name \in {PkgName(k) : k \in 1..n} |->
                           LET k == CHOOSE j \in 1..n : PkgName(j) = name
                           IN  ManifestFor(k, shapes[k])]
        /\ sort_input = packages
        /\ sret = None

SortPackages ==
    /\ sret = None
    /\ LET cached == CachePackages(packages, manifests, EmptyMap) IN
       IF ~cached.ok
       THEN /\ sret' = Some(cached)
            /\ packages' = packages
       ELSE \E m2n \in ModuleToNameChoices(cached.val) :
            \E alg \in SortAlgorithms :
               /\ packages' = sort_by(cached.val, m2n, packages, alg)
               /\ sret' = Some(Ok(<<>>))
    /\ UNCHANGED <<manifests, sort_input>>
    /\ UNCHANGED <<parseVars, versionVars, resolveVars, publishVars>>

InitSort == SortInit /\ ParseIdle /\ VersionIdle /\ ResolveIdle /\ PublishIdle
NextSort == SortPackages
SpecSort == InitSort /\ [][NextSort]_vars

\* the position of the entry called name
PosOf(v, name) == CHOOSE k \in 1..Len(v) : v[k].name = name

\* the manifest of package a names the module identity of package b
Requires(a, b) ==
    /\ manifests[a].some /\ manifests[b].some
    /\ parse_go_mod(manifests[a].val).ok /\ parse_go_mod(manifests[b].val).ok
    /\ \E k \in 1..Len(parse_go_mod(manifests[a].val).val.require) :
          parse_go_mod(manifests[a].val).val.require[k].path
              = parse_go_mod(manifests[b].val).val.module

GoNames == {packages[k].name : k \in {j \in 1..Len(packages) : packages[j].resolver = "Go"}}

\* C4: after sort_packages, whenever Go package A requires the module
\* identity of Go package B and B does not require A's, B is before A,
\* whatever the initial order and whatever entries lie between them.
C4_DependencyOrder ==
    (sret.some /\ sret.val.ok) =>
        \A a \in GoNames : \A b \in GoNames :
            (a # b /\ Requires(a, b) /\ ~Requires(b, a))
                => PosOf(packages, b) < PosOf(packages, a)

\* C10: after sort_packages the sequence is a permutation of the input and
\* every entry whose resolver kind is not Go is where it was.
C10_OnlyGoEntriesMove ==
    sret.some =>
        /\ Len(packages) = Len(sort_input)
        /\ \A k \in 1..Len(sort_input) :
              Cardinality({j \in 1..Len(packages) : packages[j] = sort_input[k]}) = 1
        /\ \A k \in 1..Len(sort_input) :
              sort_input[k].resolver # "Go" => packages[k] = sort_input[k]

\* a sort that moved a Go entry in a list that also holds a non-Go entry
C10_Witness ==
    /\ sret.some /\ sret.val.ok
    /\ packages # sort_input
    /\ \E k \in 1..Len(packages) : packages[k].resolver # "Go"

(***************************************************************************)
(* bump and publish calls on one package.                                  *)
(***************************************************************************)
Commands ==
    [command : {"true", "false"}, dry_run : {None, Some(TRUE), Some(FALSE)}]

PublishInit ==
    /\ resolver_config \in [prepublish : SeqsUpTo(Commands, MaxPre),
                            publish : SeqsUpTo(Commands, MaxPub)]
    /\ pkg_version_go = None
    /\ fs_before = None
    /\ pop = "none"
    /\ dry_run = FALSE
    /\ executed = <<>>
    /\ pret = None

Bump ==
    /\ \E dry \in BOOLEAN :
          /\ dry_run' = dry
          /\ pkg_version_go' = bump(pkg_version_go, dry, V123)
    /\ fs_before' = pkg_version_go
    /\ pop' = "bump"
    /\ executed' = <<>>
    /\ pret' = Some(Ok(<<>>))
    /\ UNCHANGED resolver_config
    /\ UNCHANGED <<parseVars, versionVars, resolveVars, sortVars>>

Publish ==
    /\ \E dry \in BOOLEAN :
          /\ dry_run' = dry
          /\ executed' = publish(resolver_config, dry).executed
          /\ pret' = Some(publish(resolver_config, dry).ret)
    /\ fs_before' = pkg_version_go
    /\ pop' = "publish"
    /\ UNCHANGED <<resolver_config, pkg_version_go>>
    /\ UNCHANGED <<parseVars, versionVars, resolveVars, sortVars>>

InitPublish == PublishInit /\ ParseIdle /\ VersionIdle /\ ResolveIdle /\ SortIdle
NextPublish == Bump \/ Publish
SpecPublish == InitPublish /\ [][NextPublish]_vars

\* the command an entry of `executed` stands for
CommandOf(e) ==
    IF e.list = "prepublish" THEN resolver_config.prepublish[e.index]
    ELSE resolver_config.publish[e.index]

\* every command of both lists, as entries
AllEntries ==
    {[list |-> "prepublish", index |-> k] : k \in 1..Len(resolver_config.prepublish)}
    \cup {[list |-> "publish", index |-> k] : k \in 1..Len(resolver_config.publish)}

Executed == {executed[k] : k \in 1..Len(executed)}

\* C3: a bump or publish call made with dry-run set leaves version.go as
\* it was and runs only commands whose own dry_run is Some(true).
C3_DryRunSuppression ==
    (pop \in {"bump", "publish"} /\ dry_run) =>
        /\ pkg_version_go = fs_before
        /\ \A e \in Executed : CommandOf(e).dry_run = [some |-> TRUE, val |-> TRUE]

\* a dry-run publish that ran an overriding command and skipped another
C3_Witness ==
    /\ pop = "publish" /\ dry_run
    /\ Executed # {}
    /\ AllEntries \ Executed # {}
    /\ \E e \in AllEntries \ Executed : CommandOf(e).command = "true"

\* entry e is declared before entry f
DeclaredBefore(e, f) ==
    \/ e.list = "prepublish" /\ f.list = "publish"
    \/ e.list = f.list /\ e.index < f.index

Skipped(e) ==
    dry_run /\ CommandOf(e).dry_run \in {[some |-> FALSE, val |-> <<>>],
                                         [some |-> TRUE, val |-> FALSE]}

\* C7: publish runs commands in declared order, prepublish commands before
\* publish commands; a failed command is the last one run and makes
\* publish return an error; without a failure every command that is not
\* skipped is run exactly once.
C7_PublishOrderFailFast ==
    pop = "publish" =>
        /\ \A i \in 1..Len(executed) : \A j \in (i + 1)..Len(executed) :
              DeclaredBefore(executed[i], executed[j])
        /\ \A i \in 1..Len(executed) :
              CommandOf(executed[i]).command = "false"
                  => (i = Len(executed) /\ ~pret.val.ok)
        /\ (\A e \in Executed : CommandOf(e).command = "true")
              => /\ pret.val.ok
                 /\ Executed = {e \in AllEntries : ~Skipped(e)}

\* a prepublish command failed after another one had run, and no command
\* of the non-empty publish list was started
C7_Witness ==
    /\ pop = "publish" /\ ~dry_run
    /\ Len(executed) = 2
    /\ CommandOf(executed[2]).command = "false"
    /\ executed[2].list = "prepublish"
    /\ Len(resolver_config.publish) >= 1
    /\ ~pret.val.ok

============================================================================
